---- MODULE Spec2Model ----
(***************************************************************************)
(* A model of src/dataio.py: project-root detection, the directory         *)
(* catalog, the path helpers, the loaders and the existence check.         *)
(*                                                                         *)
(* A path is a sequence of components (pathlib's parts after the root      *)
(* "/"); a component is a sequence of text pieces, so that an f-string is  *)
(* the concatenation of its literal pieces and the characters of its       *)
(* formatted arguments.  The file system is the set of directories `dirs`  *)
(* and the function `files` from the paths of regular files to contents.   *)
(***************************************************************************)
EXTENDS Integers, Sequences, FiniteSets, TLC

VARIABLES
    dirs,          \* the directories on disk
    files,         \* regular files on disk: path -> content
    cwd,           \* the process's current working directory
    PROJECT_ROOT,  \* the module-level root (line 36); NoRoot before the import
    loaded,        \* "no" | "yes" | "failed": whether the module's import ran
    result,        \* the outcome of the last call: [op, arg, status, value]
    stdout         \* the lines printed by the last call

vars == <<dirs, files, cwd, PROJECT_ROOT, loaded, result, stdout>>

----------------------------------------------------------------------------
(* Bounds of the model *)

MaxDepth == 3      \* depth of the directory chain the process may stand in
MaxDim == 2        \* largest matrix dimension and sequence length of an archive
MaxIndex == 2      \* largest sample index in a cohort document
MaxIndices == 2    \* longest index list in a cohort document
MaxPaths == 2      \* longest tuple passed to assert_exists
MaxChrom == 12     \* largest chromosome number asked for

----------------------------------------------------------------------------
(* Text and paths *)

DigitChars == <<"0", "1", "2", "3", "4", "5", "6", "7", "8", "9">>

\* str(n) of a non-negative int: its decimal digits, one piece per character
RECURSIVE IntStr(_)
IntStr(n) ==
    IF n < 10 THEN <<DigitChars[n + 1]>>
    ELSE IntStr(n \div 10) \o <<DigitChars[(n % 10) + 1]>>

\* a component made of one literal piece
Name(s) == <<s>>

\* the components of a path text: "/" pieces separate them; empty components
\* and "." components are dropped, as pathlib's parser does
RECURSIVE SplitFrom(_, _, _)
SplitFrom(text, i, cur) ==
    LET done == IF cur = <<>> \/ cur = <<".">> THEN <<>> ELSE <<cur>>
    IN  IF i > Len(text) THEN done
        ELSE IF text[i] = "/" THEN done \o SplitFrom(text, i + 1, <<>>)
        ELSE SplitFrom(text, i + 1, Append(cur, text[i]))

IsAbsolute(text) == text # <<>> /\ text[1] = "/"

\* Path.__truediv__: an absolute right operand replaces the left one
Div(p, text) ==
    IF IsAbsolute(text) THEN SplitFrom(text, 1, <<>>)
    ELSE p \o SplitFrom(text, 1, <<>>)

\* Path.parent
Parent(p) == IF p = <<>> THEN p ELSE SubSeq(p, 1, Len(p) - 1)

\* Path.parents: the proper ancestors, nearest first
Parents(p) == [i \in 1..Len(p) |-> SubSeq(p, 1, Len(p) - i)]

\* p is q or lies below q
IsUnder(p, q) == Len(q) <= Len(p) /\ SubSeq(p, 1, Len(q)) = q

\* Path.exists / Path.is_dir against a file system (D, F)
Exists(D, F, p) == p \in D \/ p \in F
IsDir(D, p) == p \in D

NoRoot == <<Name("<unset>")>>
NoValue == <<>>

----------------------------------------------------------------------------
(* The directory tree the process starts in *)

ChainDir(k) == [i \in 1..k |-> <<"d">> \o IntStr(i)]
BaseDirs == {ChainDir(k) : k \in 0..MaxDepth}

REQUIREMENTS == Name("requirements.txt")
GIT == Name(".git")

----------------------------------------------------------------------------
(* find_project_root *)

HasMarker(D, F, d) ==
    Exists(D, F, Div(d, REQUIREMENTS)) \/ Exists(D, F, Div(d, GIT))

RECURSIVE FirstMarkedParent(_, _, _, _)
FirstMarkedParent(D, F, ps, i) ==
    IF i > Len(ps) THEN [status |-> "RuntimeError", value |-> NoValue]
    ELSE IF HasMarker(D, F, ps[i]) THEN [status |-> "ok", value |-> ps[i]]
    ELSE FirstMarkedParent(D, F, ps, i + 1)

\* find_project_root, were it to keep walking up to the furthest marked directory
find_project_root_furthest(D, F, c) ==
    LET marked == {i \in 0..Len(c) : HasMarker(D, F, SubSeq(c, 1, i))}
    IN  IF marked = {} THEN [status |-> "RuntimeError", value |-> c]
        ELSE [status |-> "ok",
              value |-> SubSeq(c, 1, CHOOSE i \in marked : \A j \in marked : i <= j)]

\* status "ok" with the root, or "RuntimeError" with the directory the message names
find_project_root(D, F, c) ==
    IF HasMarker(D, F, c) THEN [status |-> "ok", value |-> c]
    ELSE LET r == FirstMarkedParent(D, F, Parents(c), 1)
         IN  IF r.status = "ok" THEN r
             ELSE [status |-> "RuntimeError", value |-> c]

----------------------------------------------------------------------------
(* The directory catalog, lines 39-55 *)

\* DATA_DIR, were the root resolved anew at each use instead of once at line 36
DATA_DIR_lazy ==
    LET r == find_project_root(dirs, DOMAIN files, cwd)
    IN  Div(IF r.status = "ok" THEN r.value ELSE PROJECT_ROOT, Name("data"))

DATA_DIR == Div(PROJECT_ROOT, Name("data"))

RAW_DIR == Div(Div(DATA_DIR, Name("raw")), Name("hapmap"))
RAW_GENOTYPES_DIR == Div(RAW_DIR, Name("genotypes"))
RAW_PHASING_DIR ==
    Div(Div(Div(Div(RAW_DIR, Name("phasing")), Name("HapMap3_r2")), Name("CEU")),
        Name("UNRELATED"))
RAW_PHASING_META_DIR == Div(Div(RAW_DIR, Name("phasing")), Name("HapMap3_r2_meta"))

PROC_DIR == Div(Div(DATA_DIR, Name("processed")), Name("hapmap"))
PROC_REGIONS_DIR == Div(PROC_DIR, Name("regions"))
PROC_COHORTS_DIR == Div(PROC_DIR, Name("cohorts"))
PROC_BLOCKS_DIR == Div(PROC_DIR, Name("blocks"))
PROC_HAPLOTYPES_DIR == Div(PROC_DIR, Name("haplotypes"))

DERIVED_DIR == Div(DATA_DIR, Name("derived"))
DERIVED_METHOD1_DIR == Div(DERIVED_DIR, Name("method1"))
DERIVED_METHOD2_DIR == Div(DERIVED_DIR, Name("method2"))
DERIVED_METHOD3_DIR == Div(DERIVED_DIR, Name("method3"))

\* the list ensure_dirs walks, in its order
CatalogDirs ==
    << RAW_GENOTYPES_DIR, RAW_PHASING_DIR, RAW_PHASING_META_DIR,
       PROC_REGIONS_DIR, PROC_COHORTS_DIR, PROC_BLOCKS_DIR, PROC_HAPLOTYPES_DIR,
       DERIVED_METHOD1_DIR, DERIVED_METHOD2_DIR, DERIVED_METHOD3_DIR >>

----------------------------------------------------------------------------
(* Path.mkdir(parents=True, exist_ok=True) *)

\* os.mkdir: the error of the first ancestor that is not a directory, else
\* EEXIST when the path exists, else the directory is made
OsMkdir(D, F, p) ==
    LET bad == {i \in 0..(Len(p) - 1) : SubSeq(p, 1, i) \notin D}
    IN  IF bad # {} THEN
            LET i == CHOOSE k \in bad : \A j \in bad : k <= j
            IN  [dirs |-> D,
                 status |-> IF SubSeq(p, 1, i) \in F THEN "NotADirectoryError"
                            ELSE "FileNotFoundError"]
        ELSE IF Exists(D, F, p) THEN [dirs |-> D, status |-> "FileExistsError"]
        ELSE [dirs |-> D \cup {p}, status |-> "ok"]

\* Path.mkdir(parents=True), were exist_ok left at its default False
RECURSIVE Mkdir_no_exist_ok(_, _, _)
Mkdir_no_exist_ok(D, F, p) ==
    LET first == OsMkdir(D, F, p)
    IN  IF first.status = "FileNotFoundError" /\ Parent(p) # p THEN
            LET up == Mkdir_no_exist_ok(D, F, Parent(p))
            IN  IF up.status # "ok" THEN up ELSE OsMkdir(up.dirs, F, p)
        ELSE first

RECURSIVE Mkdir(_, _, _)
Mkdir(D, F, p) ==
    LET first == OsMkdir(D, F, p)
    IN  IF first.status = "ok" THEN first
        ELSE IF first.status = "FileNotFoundError" THEN
            IF Parent(p) = p THEN first
            ELSE LET up == Mkdir(D, F, Parent(p))
                 IN  IF up.status # "ok" THEN up
                     ELSE LET again == OsMkdir(up.dirs, F, p)
                          IN  IF again.status = "ok" \/ IsDir(up.dirs, p) THEN
                                  [dirs |-> again.dirs, status |-> "ok"]
                              ELSE again
        ELSE IF IsDir(D, p) THEN [dirs |-> D, status |-> "ok"]
        ELSE first

\* the loop of ensure_dirs from position i on: it stops at the first error
RECURSIVE EnsureFrom(_, _, _, _)
EnsureFrom(D, F, ds, i) ==
    IF i > Len(ds) THEN [dirs |-> D, status |-> "ok"]
    ELSE LET r == Mkdir(D, F, ds[i])
         IN  IF r.status # "ok" THEN r ELSE EnsureFrom(r.dirs, F, ds, i + 1)

----------------------------------------------------------------------------
(* File contents and numpy arrays *)

TextFile == [kind |-> "text"]

\* an ndarray: element type, shape and the elements in row-major order
Array(dtype, shape, data) == [dtype |-> dtype, shape |-> shape, data |-> data]

\* C conversion of an integer to a signed 8-bit one: it wraps
Int8(v) == ((v + 128) % 256) - 128

\* ndarray.astype for integer arrays: the shape is kept, the elements converted
AsType(a, dtype) ==
    [dtype |-> dtype,
     shape |-> a.shape,
     data |-> [i \in 1..Len(a.data) |->
                  IF dtype = "int8" THEN Int8(a.data[i]) ELSE a.data[i]]]

----------------------------------------------------------------------------
(* The environment: the caller changes directory, other programs create     *)
(* marker files and other files                                             *)

MarkerDirs == {ChainDir(0), ChainDir(1)}

chdir(d) ==
    /\ d \in dirs
    /\ d # cwd
    /\ cwd' = d
    /\ result' = [op |-> "chdir", arg |-> <<d>>, status |-> "ok", value |-> NoValue]
    /\ stdout' = <<>>
    /\ UNCHANGED <<dirs, files, PROJECT_ROOT, loaded>>

\* another program writes a regular file at p
env_create_file(p) ==
    /\ Parent(p) \in dirs
    /\ ~Exists(dirs, DOMAIN files, p)
    /\ files' = [q \in DOMAIN files \cup {p} |-> IF q = p THEN TextFile ELSE files[q]]
    /\ result' = [op |-> "env", arg |-> <<p>>, status |-> "ok", value |-> NoValue]
    /\ stdout' = <<>>
    /\ UNCHANGED <<dirs, cwd, PROJECT_ROOT, loaded>>

\* another program makes the directory p (git init)
env_mkdir(p) ==
    /\ Parent(p) \in dirs
    /\ ~Exists(dirs, DOMAIN files, p)
    /\ dirs' = dirs \cup {p}
    /\ result' = [op |-> "env", arg |-> <<p>>, status |-> "ok", value |-> NoValue]
    /\ stdout' = <<>>
    /\ UNCHANGED <<files, cwd, PROJECT_ROOT, loaded>>

\* the markers other programs may leave
EnvFilePaths == {Div(d, REQUIREMENTS) : d \in MarkerDirs}

EnvDirPaths == {Div(d, GIT) : d \in MarkerDirs}

----------------------------------------------------------------------------
(* The module's import (line 36) and ensure_dirs *)

Import ==
    /\ loaded # "yes"
    /\ LET r == find_project_root(dirs, DOMAIN files, cwd)
       IN  /\ result' = [op |-> "find_project_root", arg |-> <<cwd>>,
                         status |-> r.status, value |-> r.value]
           /\ loaded' = IF r.status = "ok" THEN "yes" ELSE "failed"
           /\ PROJECT_ROOT' = IF r.status = "ok" THEN r.value ELSE PROJECT_ROOT
    /\ stdout' = <<>>
    /\ UNCHANGED <<dirs, files, cwd>>

ensure_dirs ==
    /\ loaded = "yes"
    /\ LET r == EnsureFrom(dirs, DOMAIN files, CatalogDirs, 1)
       IN  /\ dirs' = r.dirs
           /\ result' = [op |-> "ensure_dirs", arg |-> <<>>, status |-> r.status,
                         value |-> NoValue]
    /\ stdout' = <<>>
    /\ UNCHANGED <<files, cwd, PROJECT_ROOT, loaded>>

----------------------------------------------------------------------------
(* File path helpers, lines 81-129 *)

Return(op, arg, value) ==
    /\ result' = [op |-> op, arg |-> arg, status |-> "ok", value |-> value]
    /\ stdout' = <<>>
    /\ UNCHANGED <<dirs, files, cwd, PROJECT_ROOT, loaded>>

Raise(op, arg, error) ==
    /\ result' = [op |-> op, arg |-> arg, status |-> error, value |-> NoValue]
    /\ stdout' = <<>>
    /\ UNCHANGED <<dirs, files, cwd, PROJECT_ROOT, loaded>>

\* str.upper, character by character; "U+0131" is the dotless small i, whose
\* upper case is the ASCII I
UpperChar(c) ==
    CASE c = "c" -> "C" [] c = "e" -> "E" [] c = "u" -> "U"
      [] c = "y" -> "Y" [] c = "r" -> "R" [] c = "i" -> "I"
      [] c = "j" -> "J" [] c = "p" -> "P" [] c = "t" -> "T"
      [] c = "U+0131" -> "I"
      [] OTHER -> c

Upper(text) == [i \in 1..Len(text) |-> UpperChar(text[i])]

CEU == <<"C", "E", "U">>
YRI == <<"Y", "R", "I">>

\* region_npz_path, were it to make its directory as method_dir does
region_npz_path_ensuring_dir(region_name) ==
    /\ loaded = "yes"
    /\ dirs' = Mkdir(dirs, DOMAIN files, PROC_REGIONS_DIR).dirs
    /\ result' = [op |-> "region_npz_path", arg |-> <<region_name>>, status |-> "ok",
                  value |-> Div(PROC_REGIONS_DIR, region_name \o <<".npz">>)]
    /\ stdout' = <<>>
    /\ UNCHANGED <<files, cwd, PROJECT_ROOT, loaded>>

region_npz_path(region_name) ==
    /\ loaded = "yes"
    /\ Return("region_npz_path", <<region_name>>,
              Div(PROC_REGIONS_DIR, region_name \o <<".npz">>))

cohorts_json_path_value == Div(PROC_COHORTS_DIR, Name("ceu_case_control_test_split.json"))

cohorts_json_path ==
    /\ loaded = "yes"
    /\ Return("cohorts_json_path", <<>>, cohorts_json_path_value)

ceu_yri_cohorts_json_path ==
    /\ loaded = "yes"
    /\ Return("ceu_yri_cohorts_json_path", <<>>,
              Div(PROC_COHORTS_DIR, Name("hapmap_CEU_control_test__YRI_case.json")))

genotype_path_value(pop, chrom) ==
    Div(RAW_GENOTYPES_DIR,
        <<"genotypes_chr">> \o IntStr(chrom) \o <<"_">> \o pop \o <<"_r27_nr.b36_fwd.txt.gz">>)

\* genotype_path, were line 101 missing
genotype_path_no_upper(pop, chrom) ==
    /\ loaded = "yes"
    /\ IF pop \notin {CEU, YRI}
       THEN Raise("genotype_path", <<pop, chrom>>, "ValueError")
       ELSE Return("genotype_path", <<pop, chrom>>, genotype_path_value(pop, chrom))

genotype_path(pop, chrom) ==
    /\ loaded = "yes"
    /\ LET POP == Upper(pop)
       IN  IF POP \notin {CEU, YRI}
           THEN Raise("genotype_path", <<pop, chrom>>, "ValueError")
           ELSE Return("genotype_path", <<pop, chrom>>, genotype_path_value(POP, chrom))

aligned_region_npz_path(pop, region_tag, other_pop) ==
    /\ loaded = "yes"
    /\ Return("aligned_region_npz_path", <<pop, region_tag, other_pop>>,
              Div(PROC_REGIONS_DIR,
                  Upper(pop) \o <<"_">> \o region_tag \o <<".common_with_">>
                      \o Upper(other_pop) \o <<".npz">>))

blocks_json_path(region_name) ==
    /\ loaded = "yes"
    /\ Return("blocks_json_path", <<region_name>>,
              Div(PROC_BLOCKS_DIR, region_name \o <<".blocks.json">>))

control_haplotypes_path(region_name, phased_compatible) ==
    /\ loaded = "yes"
    /\ Return("control_haplotypes_path", <<region_name, phased_compatible>>,
              IF phased_compatible
              THEN Div(PROC_HAPLOTYPES_DIR,
                       region_name \o <<".control_haplotypes.phased_compatible.json">>)
              ELSE Div(PROC_HAPLOTYPES_DIR, region_name \o <<".control_haplotypes.json">>))

maf_reference_path ==
    /\ loaded = "yes"
    /\ Return("maf_reference_path", <<>>, Div(PROC_DIR, Name("ceu_maf_reference.npz")))

----------------------------------------------------------------------------
(* method_dir, lines 132-144 *)

Methods == {"method1", "method2", "method3"}

\* str(eps): an int prints its digits, a float with one decimal digit prints
\* as <integer part>.<digit>
EpsStr(eps) ==
    IF eps.kind = "int" THEN IntStr(eps.n)
    ELSE IntStr(eps.n \div 10) \o <<".">> \o IntStr(eps.n % 10)

\* str.replace(old, new) for a one-character old
Replace(text, old, new) == [i \in 1..Len(text) |-> IF text[i] = old THEN new ELSE text[i]]

\* method_dir, were the directory made before the method name is checked
method_dir_create_first(method, eps) ==
    /\ loaded = "yes"
    /\ LET eps_str == Replace(EpsStr(eps), ".", "_")
           out == Div(Div(DERIVED_DIR, Name(method)), <<"eps_">> \o eps_str)
           r == Mkdir(dirs, DOMAIN files, out)
       IN  /\ dirs' = r.dirs
           /\ result' = IF method \notin Methods
                         THEN [op |-> "method_dir", arg |-> <<method, eps>>,
                               status |-> "ValueError", value |-> NoValue]
                         ELSE [op |-> "method_dir", arg |-> <<method, eps>>,
                               status |-> r.status,
                               value |-> IF r.status = "ok" THEN out ELSE NoValue]
    /\ stdout' = <<>>
    /\ UNCHANGED <<files, cwd, PROJECT_ROOT, loaded>>

method_dir(method, eps) ==
    /\ loaded = "yes"
    /\ IF method \notin Methods
       THEN /\ result' = [op |-> "method_dir", arg |-> <<method, eps>>,
                          status |-> "ValueError", value |-> NoValue]
            /\ dirs' = dirs
       ELSE LET eps_str == Replace(EpsStr(eps), ".", "_")
                out == Div(Div(DERIVED_DIR, Name(method)), <<"eps_">> \o eps_str)
                r == Mkdir(dirs, DOMAIN files, out)
            IN  /\ dirs' = r.dirs
                /\ result' = [op |-> "method_dir", arg |-> <<method, eps>>,
                              status |-> r.status,
                              value |-> IF r.status = "ok" THEN out ELSE NoValue]
    /\ stdout' = <<>>
    /\ UNCHANGED <<files, cwd, PROJECT_ROOT, loaded>>

----------------------------------------------------------------------------
(* Loaders, lines 151-203 *)

OBJECT_KEYS ==
    {"sample_ids", "snp_ids", "minor_alleles", "major_alleles", "counted_alleles",
     "other_alleles"}

\* open(path) / np.load(path) on something that is not a readable file
OpenError(path) ==
    IF path \in dirs THEN "IsADirectoryError"
    ELSE IF path \notin DOMAIN files THEN "FileNotFoundError"
    ELSE "ok"

NormalizeField(k, a) ==
    IF k \in OBJECT_KEYS THEN AsType(a, "object")
    ELSE IF k = "positions" THEN AsType(a, "int64")
    ELSE IF k = "G" THEN AsType(a, "int8")
    ELSE a

\* the loader, were it to supply an empty matrix for a missing G
Normalize_requires_G(z) ==
    [k \in DOMAIN z \cup {"G"} |->
        IF k \in DOMAIN z THEN NormalizeField(k, z[k]) ELSE Array("int8", <<0, 0>>, <<>>)]

\* the loader, were it to cut snp_ids to the matrix's second dimension
Normalize_trims_ids(z) ==
    [k \in DOMAIN z |->
        IF k = "snp_ids" /\ "G" \in DOMAIN z /\ Len(z[k].data) > z["G"].shape[2]
        THEN Array("object", <<z["G"].shape[2]>>, SubSeq(z[k].data, 1, z["G"].shape[2]))
        ELSE NormalizeField(k, z[k])]

\* lines 158-172: every stored field, with its element type normalized
Normalize(z) == [k \in DOMAIN z |-> NormalizeField(k, z[k])]

load_region_npz(path) ==
    /\ loaded = "yes"
    /\ IF OpenError(path) # "ok" THEN Raise("load_region_npz", <<path>>, OpenError(path))
       ELSE IF files[path].kind # "npz"
       THEN Raise("load_region_npz", <<path>>, "UnpicklingError")
       ELSE Return("load_region_npz", <<path>>, Normalize(files[path].fields))

\* path = <<>> stands for the default None
load_cohorts(path) ==
    /\ loaded = "yes"
    /\ LET p == IF path = <<>> THEN cohorts_json_path_value ELSE path[1]
       IN  IF OpenError(p) # "ok" THEN Raise("load_cohorts", <<path>>, OpenError(p))
           ELSE IF files[p].kind # "json"
           THEN Raise("load_cohorts", <<path>>, "JSONDecodeError")
           ELSE Return("load_cohorts", <<path>>, files[p].doc)

GROUPS == {"case", "control", "test"}
INDEX_KEY == "indices_in_ceu_matrix"

RaiseNaming(op, arg, error, names) ==
    /\ result' = [op |-> op, arg |-> arg, status |-> error, value |-> names]
    /\ stdout' = <<>>
    /\ UNCHANGED <<dirs, files, cwd, PROJECT_ROOT, loaded>>

\* np.array(xs, dtype=int) of a list of JSON integers
IntArray(xs) == Array("int64", <<Len(xs)>>, xs)

\* an exception's value is the set of things its message names
get_group_indices(cohorts, group) ==
    /\ loaded = "yes"
    /\ IF group \notin GROUPS
       THEN RaiseNaming("get_group_indices", <<cohorts, group>>, "ValueError", {})
       ELSE IF group \notin DOMAIN cohorts
       THEN \* the subscription cohorts[group] raises KeyError(group)
            RaiseNaming("get_group_indices", <<cohorts, group>>, "KeyError", {group})
       ELSE IF INDEX_KEY \notin DOMAIN cohorts[group]
       THEN RaiseNaming("get_group_indices", <<cohorts, group>>, "KeyError",
                        {group, INDEX_KEY})
       ELSE Return("get_group_indices", <<cohorts, group>>,
                   IntArray(cohorts[group][INDEX_KEY]))

----------------------------------------------------------------------------
(* Quick checks, lines 210-231 *)

\* the loop of assert_exists from position i on; relative_to raises ValueError
\* for a path that is not below PROJECT_ROOT, before the line is printed
RECURSIVE AssertFrom(_, _, _, _)
AssertFrom(paths, i, out, ok) ==
    IF i > Len(paths) THEN
        [stdout |-> out, status |-> IF ok THEN "ok" ELSE "FileNotFoundError"]
    ELSE IF ~IsUnder(paths[i], PROJECT_ROOT) THEN [stdout |-> out, status |-> "ValueError"]
    ELSE LET there == Exists(dirs, DOMAIN files, paths[i])
         IN  AssertFrom(paths, i + 1,
                        Append(out, [path |-> paths[i], present |-> there]),
                        ok /\ there)

assert_exists(paths) ==
    /\ loaded = "yes"
    /\ LET r == AssertFrom(paths, 1, <<>>, TRUE)
       IN  /\ stdout' = r.stdout
           /\ result' = [op |-> "assert_exists", arg |-> <<paths>>, status |-> r.status,
                         value |-> NoValue]
    /\ UNCHANGED <<dirs, files, cwd, PROJECT_ROOT, loaded>>

print_layout_summary ==
    /\ loaded = "yes"
    /\ stdout' = <<PROJECT_ROOT, RAW_DIR, PROC_DIR, DERIVED_DIR,
                   Div(Div(PROJECT_ROOT, Name("src")), Name("mechanisms"))>>
    /\ result' = [op |-> "print_layout_summary", arg |-> <<>>, status |-> "ok",
                  value |-> NoValue]
    /\ UNCHANGED <<dirs, files, cwd, PROJECT_ROOT, loaded>>

----------------------------------------------------------------------------

(* Inputs *)

RegionNames == {<<"CEU_chr2_5Mb">>, <<"/", "tmp", "/", "r">>}
RegionTags == {<<"chr2_5Mb">>}
SomePops == {<<"c", "e", "u">>, <<"J", "P", "T">>}

PopChars == {"c", "C", "e", "E", "u", "U", "y", "R", "i", "U+0131", "x"}
Pops ==
    [1..3 -> PopChars]
    \cup {<<>>, <<"C", "E">>, <<"C", "E", "U", "x">>, <<"y", "r", "i", " ">>}

FloatEps(tenths) == [kind |-> "float", n |-> tenths]
IntEps(n) == [kind |-> "int", n |-> n]

\* (method, eps) pairs: 0.1, 10, 1.0 and 1 under the three methods, and names
\* outside the enumeration
MethodCalls ==
    {<<"method1", FloatEps(1)>>, <<"method1", IntEps(10)>>, <<"method2", FloatEps(10)>>,
     <<"method3", IntEps(1)>>, <<"method4", FloatEps(1)>>, <<"Method1", IntEps(10)>>,
     <<"", IntEps(1)>>}
SomeMethodCalls ==
    {<<"method1", FloatEps(1)>>, <<"method2", IntEps(10)>>, <<"method4", FloatEps(1)>>}

\* archives: which fields are stored, the matrix shape, the lengths of the
\* per-sample and per-SNP sequences, the stored matrix values
FieldNames == {"G", "sample_ids", "snp_ids", "positions", "minor_alleles", "chrom"}
GPatterns == {<<-1, 0, 1, 2>>, <<0, 200>>, <<-129, 127>>}

Fill(n, pattern) == [i \in 1..n |-> pattern[((i - 1) % Len(pattern)) + 1]]

MkArchive(fs, nSamples, nSnps, lenSample, lenSnp, pattern) ==
    [k \in fs |->
        IF k = "G" THEN Array("int64", <<nSamples, nSnps>>, Fill(nSamples * nSnps, pattern))
        ELSE IF k = "sample_ids" THEN Array("str", <<lenSample>>, [i \in 1..lenSample |-> i])
        ELSE IF k = "positions" THEN Array("int32", <<lenSnp>>, [i \in 1..lenSnp |-> 100 * i])
        ELSE IF k = "chrom" THEN Array("int64", <<>>, <<2>>)
        ELSE Array("str", <<lenSnp>>, [i \in 1..lenSnp |-> i])]

Archives ==
    {MkArchive(fs, ns, np, ls, lp, g) :
        fs \in SUBSET FieldNames, ns \in 1..MaxDim, np \in 1..MaxDim,
        ls \in 0..MaxDim, lp \in 0..MaxDim, g \in GPatterns}

WellFormedArchive == MkArchive(FieldNames, 2, 1, 2, 1, <<-1, 0, 1, 2>>)

\* cohort documents: JSON objects of group records
IndexLists == UNION {[1..n -> 0..MaxIndex] : n \in 0..MaxIndices}
GroupRecords ==
    {[k \in {"sample_ids"} |-> <<"s1", "s2">>]}
    \cup {[k \in {"sample_ids", INDEX_KEY} |-> IF k = INDEX_KEY THEN xs ELSE <<"s1", "s2">>] :
            xs \in IndexLists}
    \cup {[k \in {INDEX_KEY} |-> <<0, 1>>]}
FixedRecords ==
    {[k \in {"sample_ids"} |-> <<"s3">>],
     [k \in {"sample_ids", INDEX_KEY} |-> IF k = INDEX_KEY THEN <<1, 0>> ELSE <<"s3", "s4">>]}
CohortDocs ==
    {[g \in gs |-> IF g = "case" THEN rc ELSE rf] :
        gs \in SUBSET (GROUPS \cup {"other"}), rc \in GroupRecords, rf \in FixedRecords}

WellFormedCohorts ==
    [g \in GROUPS |->
        [k \in {"sample_ids", INDEX_KEY} |-> IF k = INDEX_KEY THEN <<0, 1>> ELSE <<"s1", "s2">>]]

GroupInputs == GROUPS \cup {"other", "Case"}

ArchiveFile == Div(ChainDir(1), Name("region.npz"))
CohortFile == Div(ChainDir(1), Name("cohorts.json"))
MissingFile == Div(ChainDir(1), Name("missing"))

\* the document a preceding load_cohorts returned
LoadedCohorts ==
    IF result.op = "load_cohorts" /\ result.status = "ok" THEN {result.value} ELSE {}

\* what a caller may pass to assert_exists: a catalog directory, a path below
\* the root that nothing creates, and the file system's root directory
CheckedPaths == {PROC_REGIONS_DIR, MissingFile, ChainDir(0)}
PathTuples == UNION {[1..n -> CheckedPaths] : n \in 0..MaxPaths}

NoResult == [op |-> "none", arg |-> <<>>, status |-> "ok", value |-> NoValue]

----------------------------------------------------------------------------
(* The import and the path helpers in a changing environment *)

Init ==
    /\ dirs = BaseDirs
    /\ files = <<>>
    /\ cwd \in BaseDirs
    /\ PROJECT_ROOT = NoRoot
    /\ loaded = "no"
    /\ result = NoResult
    /\ stdout = <<>>

Next ==
    \/ \E d \in BaseDirs : chdir(d)
    \/ \E p \in EnvFilePaths : env_create_file(p)
    \/ \E p \in EnvDirPaths : env_mkdir(p)
    \/ Import
    \/ ensure_dirs
    \/ \E rn \in RegionNames : region_npz_path(rn)
    \/ cohorts_json_path
    \/ ceu_yri_cohorts_json_path
    \/ \E pop \in SomePops : genotype_path(pop, 2)
    \/ \E pop \in SomePops \cup {<<"/", "x">>}, tag \in RegionTags :
            aligned_region_npz_path(pop, tag, <<"y", "r", "i">>)
    \/ \E rn \in RegionNames : blocks_json_path(rn)
    \/ \E rn \in RegionNames, b \in BOOLEAN : control_haplotypes_path(rn, b)
    \/ maf_reference_path
    \/ \E c \in SomeMethodCalls : method_dir(c[1], c[2])
    \/ print_layout_summary

Spec == Init /\ [][Next]_vars

----------------------------------------------------------------------------
(* The module imported from ChainDir(1), which holds a .git directory *)

Imported ==
    /\ cwd = ChainDir(1)
    /\ PROJECT_ROOT = ChainDir(1)
    /\ loaded = "yes"
    /\ stdout = <<>>

Closure(p) == {SubSeq(p, 1, i) : i \in 0..Len(p)}

NotesFile == Div(PROC_REGIONS_DIR, Name("notes.txt"))
Eps01File == Div(DERIVED_METHOD1_DIR, Name("eps_0_1"))

\* what the data tree holds before the first call: nothing; a catalog
\* directory with a file of another program in it; a regular file where a
\* catalog directory, the data directory or a method's output directory belongs
FsPresets ==
    {[dirs |-> {}, files |-> {}],
     [dirs |-> Closure(PROC_REGIONS_DIR), files |-> {NotesFile}],
     [dirs |-> UNION {Closure(CatalogDirs[i]) : i \in 1..Len(CatalogDirs)},
      files |-> {NotesFile}],
     [dirs |-> Closure(DERIVED_DIR), files |-> {DERIVED_METHOD2_DIR}],
     [dirs |-> {}, files |-> {DATA_DIR}],
     [dirs |-> Closure(DERIVED_METHOD1_DIR), files |-> {Eps01File}]}

InitFs ==
    /\ Imported
    /\ result = NoResult
    /\ \E pre \in FsPresets :
        /\ dirs = BaseDirs \cup {Div(ChainDir(1), GIT)} \cup pre.dirs
        /\ files = [p \in pre.files \cup {ArchiveFile, CohortFile} |->
                      IF p = ArchiveFile THEN [kind |-> "npz", fields |-> WellFormedArchive]
                      ELSE IF p = CohortFile THEN [kind |-> "json", doc |-> WellFormedCohorts]
                      ELSE TextFile]

NextFs ==
    \/ ensure_dirs
    \/ \E c \in MethodCalls : method_dir(c[1], c[2])
    \/ \E ps \in PathTuples : assert_exists(ps)
    \/ \E rn \in RegionNames : region_npz_path(rn)
    \/ cohorts_json_path
    \/ ceu_yri_cohorts_json_path
    \/ \E pop \in SomePops : genotype_path(pop, 2)
    \/ \E pop \in SomePops \cup {<<"/", "x">>}, tag \in RegionTags :
            aligned_region_npz_path(pop, tag, <<"y", "r", "i">>)
    \/ \E rn \in RegionNames : blocks_json_path(rn)
    \/ \E rn \in RegionNames, b \in BOOLEAN : control_haplotypes_path(rn, b)
    \/ maf_reference_path
    \/ \E p \in {ArchiveFile, CohortFile, MissingFile, ChainDir(1)} : load_region_npz(p)
    \/ \E p \in {<<>>, <<CohortFile>>, <<ArchiveFile>>} : load_cohorts(p)
    \/ \E c \in LoadedCohorts, g \in GroupInputs : get_group_indices(c, g)
    \/ print_layout_summary

SpecFs == InitFs /\ [][NextFs]_vars

----------------------------------------------------------------------------
(* genotype_path over population strings and chromosome numbers *)

\* the caller's next population string: the same one again, its upper-case
\* form, or the one with the case of every letter swapped
SwapChar(c) ==
    CASE c = "c" -> "C" [] c = "C" -> "c" [] c = "e" -> "E" [] c = "E" -> "e"
      [] c = "u" -> "U" [] c = "U" -> "u" [] c = "y" -> "Y" [] c = "R" -> "r"
      [] c = "i" -> "I"
      [] OTHER -> c
Variants(pop) == {pop, Upper(pop), [i \in 1..Len(pop) |-> SwapChar(pop[i])]}

InitNames ==
    /\ Imported
    /\ dirs = BaseDirs \cup {Div(ChainDir(1), GIT)}
    /\ files = <<>>
    /\ \E pop \in Pops, chrom \in 1..MaxChrom :
        result = [op |-> "input", arg |-> <<pop, chrom>>, status |-> "ok", value |-> NoValue]

NextNames ==
    \E pop \in IF result.op = "input" THEN {result.arg[1]} ELSE Variants(result.arg[1]) :
        genotype_path(pop, result.arg[2])

SpecNames == InitNames /\ [][NextNames]_vars

----------------------------------------------------------------------------
(* load_region_npz over archives *)

InitArchive ==
    /\ Imported
    /\ result = NoResult
    /\ dirs = BaseDirs \cup {Div(ChainDir(1), GIT)}
    /\ \E a \in Archives : files = [p \in {ArchiveFile} |-> [kind |-> "npz", fields |-> a]]

NextArchive == \E p \in {ArchiveFile, MissingFile} : load_region_npz(p)

SpecArchive == InitArchive /\ [][NextArchive]_vars

----------------------------------------------------------------------------
(* load_cohorts and get_group_indices over cohort documents *)

InitCohort ==
    /\ Imported
    /\ result = NoResult
    /\ dirs = BaseDirs \cup {Div(ChainDir(1), GIT)}
    /\ \E d \in CohortDocs : files = [p \in {CohortFile} |-> [kind |-> "json", doc |-> d]]

NextCohort ==
    \/ \E p \in {<<>>, <<CohortFile>>} : load_cohorts(p)
    \/ \E c \in LoadedCohorts, g \in GroupInputs : get_group_indices(c, g)

SpecCohort == InitCohort /\ [][NextCohort]_vars

----------------------------------------------------------------------------
(* Properties of find_project_root and of the cached root, under Spec *)

MarkedAt(d) ==
    \/ Append(d, <<"requirements.txt">>) \in dirs \cup DOMAIN files
    \/ Append(d, <<".git">>) \in dirs \cup DOMAIN files

\* the depths of the directories on the chain from "/" to cwd that hold a marker
MarkedLevels == {i \in 0..Len(cwd) : MarkedAt(SubSeq(cwd, 1, i))}

\* C2: find_project_root returns the nearest directory on the chain cwd,
\* parent, grandparent, ... that holds requirements.txt or .git, and fails
\* with RuntimeError naming cwd exactly when no directory on the chain does.
C2_NearestMarkedAncestor ==
    result.op = "find_project_root" =>
        /\ result.status \in {"ok", "RuntimeError"}
        /\ (result.status = "RuntimeError") <=> (MarkedLevels = {})
        /\ result.status = "RuntimeError" => result.value = cwd /\ loaded = "failed"
        /\ result.status = "ok" =>
               /\ \E i \in MarkedLevels :
                      /\ result.value = SubSeq(cwd, 1, i)
                      /\ \A j \in MarkedLevels : j <= i
               /\ PROJECT_ROOT = result.value
               /\ loaded = "yes"

\* the root found three levels above the working directory, by its .git
C2_Witness ==
    /\ result.op = "find_project_root"
    /\ result.status = "ok"
    /\ Len(cwd) = Len(result.value) + 3
    /\ Append(result.value, <<".git">>) \in dirs

PathHelperOps ==
    {"region_npz_path", "cohorts_json_path", "ceu_yri_cohorts_json_path", "genotype_path",
     "aligned_region_npz_path", "blocks_json_path", "control_haplotypes_path",
     "maf_reference_path", "method_dir"}

\* the helpers whose file name starts with a caller's free text
FreeTextOps ==
    {"region_npz_path", "aligned_region_npz_path", "blocks_json_path",
     "control_haplotypes_path"}

----------------------------------------------------------------------------
(* Properties of the directory-creating operations and of the existence     *)
(* check, under SpecFs                                                      *)

Below(names) == PROJECT_ROOT \o [i \in 1..Len(names) |-> <<names[i]>>]

TenCatalogDirs ==
    {Below(<<"data", "raw", "hapmap", "genotypes">>),
     Below(<<"data", "raw", "hapmap", "phasing", "HapMap3_r2", "CEU", "UNRELATED">>),
     Below(<<"data", "raw", "hapmap", "phasing", "HapMap3_r2_meta">>),
     Below(<<"data", "processed", "hapmap", "regions">>),
     Below(<<"data", "processed", "hapmap", "cohorts">>),
     Below(<<"data", "processed", "hapmap", "blocks">>),
     Below(<<"data", "processed", "hapmap", "haplotypes">>),
     Below(<<"data", "derived", "method1">>),
     Below(<<"data", "derived", "method2">>),
     Below(<<"data", "derived", "method3">>)}

Prefixes(p) == {SubSeq(p, 1, i) : i \in 0..Len(p)}

\* a regular file sits at p or at a directory above p
FileInTheWay(p) == Prefixes(p) \cap DOMAIN files # {}

\* the token of the epsilons asked for: 0.1, 1.0, 1 and 10
EpsToken(eps) ==
    IF eps.kind = "float"
    THEN (IF eps.n = 1 THEN <<"0", "_", "1">> ELSE <<"1", "_", "0">>)
    ELSE (IF eps.n = 1 THEN <<"1">> ELSE <<"1", "0">>)

ExpectedMethodDir(method, eps) ==
    Below(<<"data", "derived", method>>) \o << <<"eps_">> \o EpsToken(eps) >>

C5_EnsureDirsIdempotent ==
    [][result'.op = "ensure_dirs" =>
          /\ files' = files
          /\ dirs \subseteq dirs'
          /\ result'.status = "ok" => TenCatalogDirs \subseteq dirs'
          /\ (\A d \in TenCatalogDirs : ~FileInTheWay(d)) => result'.status = "ok"
          /\ (TenCatalogDirs \subseteq dirs
                \/ (result.op = "ensure_dirs" /\ result.status = "ok")) =>
                 /\ result'.status = "ok"
                 /\ dirs' = dirs]_vars

\* ensure_dirs succeeded on a tree whose regions directory already held a file
C5_Witness ==
    /\ result.op = "ensure_dirs"
    /\ result.status = "ok"
    /\ TenCatalogDirs \subseteq dirs
    /\ Below(<<"data", "processed", "hapmap", "regions", "notes.txt">>) \in DOMAIN files

\* C6: no call changes a regular file or removes a directory, and only
\* ensure_dirs and method_dir add directories.
C6_OnlyDirectoriesGrow ==
    [][/\ files' = files
       /\ dirs \subseteq dirs'
       /\ result'.op \notin {"ensure_dirs", "method_dir"} => dirs' = dirs]_vars

\* a loader answered on a disk where method_dir had made a directory
C6_Witness ==
    /\ result.op \in {"load_region_npz", "load_cohorts", "get_group_indices", "assert_exists"}
    /\ \E d \in dirs : Len(d) > 0 /\ d[Len(d)] = <<"eps_", "0", "_", "1">>
    /\ DOMAIN files # {}

\* C9 as stated: assert_exists reports every path of the tuple, present or
\* absent, and fails with FileNotFoundError exactly when a path is absent,
\* and with no other error.
C9_ReportsAllThenFails ==
    result.op = "assert_exists" =>
        LET paths == result.arg[1]
        IN  /\ Len(stdout) = Len(paths)
            /\ \A i \in 1..Len(paths) :
                   /\ i <= Len(stdout)
                   /\ stdout[i].path = paths[i]
                   /\ stdout[i].present = (paths[i] \in dirs \cup DOMAIN files)
            /\ result.status \in {"ok", "FileNotFoundError"}
            /\ (result.status = "FileNotFoundError") <=>
                   (\E i \in 1..Len(paths) : paths[i] \notin dirs \cup DOMAIN files)

----------------------------------------------------------------------------
(* Properties of genotype_path, under SpecNames *)

\* the population code a string spells when letter case is ignored
SpellsCEU(pop) ==
    /\ Len(pop) = 3
    /\ pop[1] \in {"c", "C"}
    /\ pop[2] \in {"e", "E"}
    /\ pop[3] \in {"u", "U"}

SpellsYRI(pop) ==
    /\ Len(pop) = 3
    /\ pop[1] \in {"y", "Y"}
    /\ pop[2] \in {"r", "R"}
    /\ pop[3] \in {"i", "I", "U+0131"}

\* the decimal digits of the chromosome numbers 1..99
ChromDigits(chrom) ==
    IF chrom < 10 THEN <<DigitChars[chrom + 1]>>
    ELSE <<DigitChars[(chrom \div 10) + 1], DigitChars[(chrom % 10) + 1]>>

ExpectedGenotypePath(code, chrom) ==
    Below(<<"data", "raw", "hapmap", "genotypes">>)
        \o << <<"genotypes_chr">> \o ChromDigits(chrom) \o <<"_">> \o code
               \o <<"_r27_nr.b36_fwd.txt.gz">> >>

\* two strings of the same letters, in whatever case
SameLetters(p, q) ==
    /\ Len(p) = Len(q)
    /\ \A i \in 1..Len(p) :
           \/ p[i] = q[i]
           \/ \E pair \in {{"c", "C"}, {"e", "E"}, {"u", "U"}, {"y", "Y"}, {"r", "R"},
                            {"i", "I"}} : {p[i], q[i]} = pair

\* C4: genotype_path succeeds exactly when the population spells CEU or YRI
\* in some letter case and fails with ValueError otherwise; the path it
\* returns holds the upper-case code; a second call whose population differs
\* from the first only in letter case, or not at all, gives the same outcome;
\* and the file system is the same after the call as before.
C4_GenotypePath ==
    [][result'.op = "genotype_path" =>
          LET pop == result'.arg[1]
              chrom == result'.arg[2]
          IN  /\ dirs' = dirs
              /\ files' = files
              /\ result'.status \in {"ok", "ValueError"}
              /\ (result'.status = "ok") <=> (SpellsCEU(pop) \/ SpellsYRI(pop))
              /\ SpellsCEU(pop) =>
                     result'.value = ExpectedGenotypePath(<<"C", "E", "U">>, chrom)
              /\ SpellsYRI(pop) =>
                     result'.value = ExpectedGenotypePath(<<"Y", "R", "I">>, chrom)
              /\ (result.op = "genotype_path" /\ result.arg[2] = chrom
                    /\ SameLetters(result.arg[1], pop)) =>
                     /\ result'.status = result.status
                     /\ result'.value = result.value]_vars

\* a mixed-case spelling answered after a call with another spelling
C4_Witness ==
    /\ result.op = "genotype_path"
    /\ result.status = "ok"
    /\ result.arg[1] = <<"C", "e", "U">>
    /\ result.arg[2] = 10
    /\ result.value = ExpectedGenotypePath(<<"C", "E", "U">>, 10)

----------------------------------------------------------------------------
(* Properties of load_region_npz, under SpecArchive *)

Stored == files[ArchiveFile].fields

\* the length invariant of a record whose matrix is samples by SNPs
LengthInvariant(rec) ==
    "G" \in DOMAIN rec =>
        /\ \A k \in DOMAIN rec \cap {"snp_ids", "positions", "minor_alleles", "major_alleles",
                                       "counted_alleles", "other_alleles"} :
               Len(rec[k].data) = rec["G"].shape[2]
        /\ "sample_ids" \in DOMAIN rec => Len(rec["sample_ids"].data) = rec["G"].shape[1]

Loaded == result.op = "load_region_npz" /\ result.status = "ok"

\* C7 as stated: every record load_region_npz returns satisfies the length
\* invariant.
C7_RecordLengthInvariant == Loaded => LengthInvariant(result.value)

\* C7, amended: load_region_npz keeps the shape and the length of every
\* stored field, so the record it returns satisfies the length invariant
\* exactly when the archive's stored fields do; the loader does not check it.
C7_ShapesPreserved ==
    Loaded =>
        /\ \A k \in DOMAIN result.value \cap DOMAIN Stored :
               /\ result.value[k].shape = Stored[k].shape
               /\ Len(result.value[k].data) = Len(Stored[k].data)
        /\ LengthInvariant(result.value) <=> LengthInvariant(Stored)

\* a record with a matrix and every sequence, loaded with the invariant holding
C7_Witness ==
    /\ Loaded
    /\ {"G", "sample_ids", "snp_ids", "positions"} \subseteq DOMAIN result.value
    /\ result.value["G"].shape = <<1, 2>>
    /\ Len(result.value["snp_ids"].data) = 2
    /\ LengthInvariant(result.value)

\* C8: loading a readable archive never fails; the record has exactly the
\* archive's field names; G, when stored, is returned as int8 values, also
\* when stored values lie outside {-1, 0, 1, 2}, and equals the stored matrix
\* when they lie inside.
C8_FieldsKept ==
    (result.op = "load_region_npz" /\ result.arg[1] = ArchiveFile) =>
        /\ result.status = "ok"
        /\ DOMAIN result.value = DOMAIN Stored
        /\ "G" \in DOMAIN Stored =>
               /\ result.value["G"].dtype = "int8"
               /\ result.value["G"].shape = Stored["G"].shape
               /\ \A i \in 1..Len(result.value["G"].data) :
                      result.value["G"].data[i] \in -128..127
               /\ (\A i \in 1..Len(Stored["G"].data) : Stored["G"].data[i] \in {-1, 0, 1, 2})
                      => result.value["G"].data = Stored["G"].data

\* an archive without positions whose matrix holds 200 was loaded
C8_Witness ==
    /\ Loaded
    /\ "positions" \notin DOMAIN result.value
    /\ "G" \in DOMAIN result.value
    /\ \E i \in 1..Len(Stored["G"].data) : Stored["G"].data[i] = 200

----------------------------------------------------------------------------
(* Properties of get_group_indices, under SpecCohort *)

\* C1 as stated: an unrecognized group fails with ValueError whatever the
\* document holds; a recognized group whose index list is missing, because
\* its record lacks the field or because the document has no record for it,
\* fails with KeyError naming the group and the field; otherwise the stored
\* list is returned, element for element.
C1_ThreeOutcomes ==
    result.op = "get_group_indices" =>
        LET cohorts == result.arg[1]
            group == result.arg[2]
            supplied == /\ group \in DOMAIN cohorts
                        /\ "indices_in_ceu_matrix" \in DOMAIN cohorts[group]
        IN  IF group \notin {"case", "control", "test"} THEN result.status = "ValueError"
            ELSE IF ~supplied THEN
                /\ result.status = "KeyError"
                /\ result.value = {group, "indices_in_ceu_matrix"}
            ELSE /\ result.status = "ok"
                 /\ result.value.data = cohorts[group]["indices_in_ceu_matrix"]

====
